---- MODULE Spec2Model ----
(***************************************************************************)
(* Quantum phase estimation notebook (Algorithms/phase_estimation.ipynb).  *)
(*                                                                         *)
(* All numbers are exact.  A complex number is an element of the ring      *)
(* Z[w], w = exp(2*pi*i/R), divided by a positive integer that is kept     *)
(* with the object it belongs to (a vector, a matrix, a distribution).     *)
(* An element of Z[w] is the tuple of its R/2 integer coordinates on       *)
(* 1, w, ..., w^(R/2-1)  (w^(R/2) = -1).  Objects are kept in lowest       *)
(* terms, so that equal values are equal tuples.                           *)
(***************************************************************************)
EXTENDS Integers, Sequences, FiniteSets, TLC

\* Largest number of estimation wires of a run with freely chosen phases.
MaxM == 2

\* Case 1 of the notebook: estimation_wires = range(1, 4)
Case1Wires == 3

\* Eigenvalues are multiples of pi/LamDen, from -MaxLam to MaxLam of them;
\* durations are 1..MaxDuration.
LamDen == 2
MaxLam == 5
MaxDuration == 2

\* log2 of the order R of the root of unity w.
LogR == IF MaxM > 3 THEN MaxM ELSE 3

RECURSIVE Pow2(_)
Pow2(n) == IF n = 0 THEN 1 ELSE 2 * Pow2(n - 1)

R == Pow2(LogR)
Half == R \div 2

Abs(n) == IF n < 0 THEN -n ELSE n

RECURSIVE GCD(_, _)
GCD(a, b) == IF b = 0 THEN Abs(a) ELSE GCD(b, a % Abs(b))

RECURSIVE GCDSet(_)
GCDSet(S) == IF S = {} THEN 0
             ELSE LET x == CHOOSE y \in S : TRUE
                  IN  GCD(x, GCDSet(S \ {x}))

\* f[lo] + ... + f[hi]
RECURSIVE SumRange(_, _, _)
SumRange(f, lo, hi) ==
    IF lo > hi THEN 0
    ELSE IF lo = hi THEN f[lo]
    ELSE LET mid == (lo + hi) \div 2
         IN  SumRange(f, lo, mid) + SumRange(f, mid + 1, hi)
SumTo(f, n) == SumRange(f, 1, n)

\* the tuple <<f[lo], ..., f[hi]>>
RECURSIVE TupRange(_, _, _)
TupRange(f, lo, hi) ==
    IF lo > hi THEN <<>>
    ELSE IF lo = hi THEN <<f[lo]>>
    ELSE LET mid == (lo + hi) \div 2
         IN  TupRange(f, lo, mid) \o TupRange(f, mid + 1, hi)
Tup(f, n) == TupRange(f, 1, n)

Ring(f) == Tup(f, Half)
Mat2(F) == <<<<F[1][1], F[1][2]>>, <<F[2][1], F[2][2]>>>>

----------------------------------------------------------------------------
(* The ring Z[w]                                                           *)

Zero == Ring([k \in 1..Half |-> 0])
One == Ring([k \in 1..Half |-> IF k = 1 THEN 1 ELSE 0])

\* coordinate of a on w^t for any t in 0..R-1 (w^(t+R/2) = -w^t)
Ext(a, t) == IF t < Half THEN a[t + 1] ELSE -a[t - Half + 1]

Add(a, b) == Ring([k \in 1..Half |-> a[k] + b[k]])
Neg(a) == Ring([k \in 1..Half |-> -a[k]])
Sub(a, b) == Ring([k \in 1..Half |-> a[k] - b[k]])
Scale(n, a) == Ring([k \in 1..Half |-> n * a[k]])

\* a * w^j, j any integer
MulRoot(a, j) == Ring([k \in 1..Half |-> Ext(a, ((k - 1) - j) % R)])

\* w^j
Root(j) == MulRoot(One, j)

Mul(a, b) ==
    Ring([k \in 1..Half |->
        SumTo([j \in 1..Half |-> b[j] * Ext(a, ((k - 1) - (j - 1)) % R)], Half)])

\* complex conjugate
Conj(a) == Ring([k \in 1..Half |-> Ext(a, (R - (k - 1)) % R)])

\* |a|^2 as a ring element (it lies in the real subring)
AbsSq(a) == Mul(a, Conj(a))

ImagUnit == Root(R \div 4)
Sqrt2 == Add(Root(R \div 8), Root(7 * (R \div 8)))

\* exp(2*pi*i*k/8)
Root8(k) == Root(k * (R \div 8))

RECURSIVE Sqrt2Pow(_)
Sqrt2Pow(n) == IF n = 0 THEN One ELSE Mul(Sqrt2, Sqrt2Pow(n - 1))

Coords(a) == {Abs(a[k]) : k \in 1..Half}

----------------------------------------------------------------------------
(* 2x2 matrices  [mat |-> <<<<a,b>>,<<c,d>>>>, den |-> D]  = mat / D       *)
(* and vectors   [amp |-> <<a_1..a_n>>, den |-> D]        = amp / D       *)

MatCoords(M) == UNION {Coords(M[r][c]) : r \in 1..2, c \in 1..2}

ReduceMat(M, d) ==
    LET g == GCDSet(MatCoords(M) \cup {d})
    IN  [mat |-> Mat2([r \in 1..2 |-> [c \in 1..2 |->
                    Ring([k \in 1..Half |-> M[r][c][k] \div g])]]),
         den |-> d \div g]

MatMul(A, B) ==
    ReduceMat(Mat2([r \in 1..2 |-> [c \in 1..2 |->
                  Add(Mul(A.mat[r][1], B.mat[1][c]), Mul(A.mat[r][2], B.mat[2][c]))]]),
              A.den * B.den)

Dagger(A) ==
    [mat |-> Mat2([r \in 1..2 |-> [c \in 1..2 |-> Conj(A.mat[c][r])]]), den |-> A.den]

Eye2 == [mat |-> <<<<One, Zero>>, <<Zero, One>>>>, den |-> 1]

\* np.linalg.matrix_power for a non-negative integer power (repeated squaring)
RECURSIVE MatPow(_, _)
MatPow(A, p) ==
    IF p = 0 THEN Eye2
    ELSE IF p % 2 = 0 THEN LET h == MatPow(A, p \div 2) IN MatMul(h, h)
    ELSE MatMul(A, MatPow(A, p - 1))

VecCoords(v) == UNION {Coords(v[i]) : i \in 1..Len(v)}

ReduceVec(f, d) ==
    LET v == Tup(f, Len(f))
        g == GCDSet(VecCoords(v) \cup {d})
    IN  [amp |-> Tup([i \in 1..Len(v) |-> Ring([k \in 1..Half |-> v[i][k] \div g])],
                     Len(v)),
         den |-> d \div g]

----------------------------------------------------------------------------
(* create_random_vec / proj / create_unitary                               *)

\* One draw of np.random.rand(2) + 1j*np.random.rand(2): every real and
\* imaginary part is 0 or 1/2; the pair <<x, y>> stands for (x + i*y)/2.
RandParts == {<<0, 0>>, <<1, 0>>, <<0, 1>>, <<1, 1>>}
RandVecsAll == RandParts \X RandParts

Gauss(p) == Add(Scale(p[1], One), Scale(p[2], ImagUnit))

\* integer value of |v1|^2 + |v2|^2 for v with Gaussian-integer entries
NormSq(v) == Add(AbsSq(v[1]), AbsSq(v[2]))[1]

\* A normalised vector v / sqrt(n2); n2 = 0 is the 0/0 of a zero vector (nan).
create_random_vec(draw) ==
    LET v == <<Gauss(draw[1]), Gauss(draw[2])>>
    IN  [v |-> v, n2 |-> NormSq(v)]

\* |psi><psi| of a normalised vector, as a matrix over the denominator n2
proj(vec) ==
    [mat |-> Mat2([r \in 1..2 |-> [c \in 1..2 |-> Mul(vec.v[r], Conj(vec.v[c]))]]),
     den |-> vec.n2]

\* (I - proj(e1)) @ w, renormalised: the direction is (n1*I - v1 v1^dagger) w
OrthogonalComplement(e1, w) ==
    LET P == proj(e1)
        u == Tup([r \in 1..2 |->
                    Sub(Scale(e1.n2, w.v[r]),
                        Add(Mul(P.mat[r][1], w.v[1]), Mul(P.mat[r][2], w.v[2])))], 2)
        red == ReduceVec(u, 0)
    IN  IF e1.n2 = 0 \/ w.n2 = 0 THEN [v |-> <<Zero, Zero>>, n2 |-> 0]
        ELSE IF NormSq(u) = 0 THEN [v |-> <<Zero, Zero>>, n2 |-> 0]
        ELSE [v |-> red.amp, n2 |-> NormSq(red.amp)]

\* nan: what a 0/0 in either eigenvector turns every entry into
NaNMat == [mat |-> <<<<Zero, Zero>>, <<Zero, Zero>>>>, den |-> 0]

\* exp(2*pi*i*a/R) * proj(e1) + exp(2*pi*i*b/R) * proj(e2), before the check
UnitaryOf(phases, e1, e2) ==
    LET P1 == proj(e1)
        P2 == proj(e2)
    IN  IF e1.n2 = 0 \/ e2.n2 = 0 THEN NaNMat
        ELSE ReduceMat(Mat2([r \in 1..2 |-> [c \in 1..2 |->
                          Add(Scale(e2.n2, MulRoot(P1.mat[r][c], phases[1])),
                              Scale(e1.n2, MulRoot(P2.mat[r][c], phases[2])))]]),
                       e1.n2 * e2.n2)

IsUnitary(U) == U.den > 0 /\ MatMul(Dagger(U), U) = Eye2

\* assert np.allclose(np.eye(2), np.conj(unitary.T) @ unitary); a nan entry
\* fails it.  With vector parts of 0 or 1/2 a matrix that is not exactly
\* unitary is off by far more than numpy's tolerance.
UnitarityCheckSkipped(U) == TRUE
UnitarityCheck(U) == IsUnitary(U)

----------------------------------------------------------------------------
(* Gates of the circuit                                                    *)

\* RY(2*pi*j/4): [[cos, -sin], [sin, cos]] of the half angle j*pi/4
RYMat(j) ==
    LET c2 == Add(Root8(j), Root8(8 - j))
        s2 == Neg(Mul(ImagUnit, Sub(Root8(j), Root8(8 - j))))
    IN  ReduceMat(<<<<c2, Neg(s2)>>, <<s2, c2>>>>, 2)

\* RZ(2*pi*j/4): diag(exp(-i*phi/2), exp(i*phi/2)), phi/2 = j*pi/4
RZMat(j) == [mat |-> <<<<Root8(8 - j), Zero>>, <<Zero, Root8(j)>>>>, den |-> 1]

HMat == ReduceMat(<<<<Sqrt2, Sqrt2>>, <<Sqrt2, Neg(Sqrt2)>>>>, 2)

\* default.qubit orders the wires as the circuit first uses them: wire 0,
\* then the estimation wires in the order given; the first is the most
\* significant bit of a basis index.
WirePos(w, wires) ==
    IF w = 0 THEN 0 ELSE CHOOSE j \in 1..Len(wires) : wires[j] = w

Bit(i, pos, n) == ((i - 1) \div Pow2(n - 1 - pos)) % 2

ZeroState(n) == [amp |-> Tup([i \in 1..Pow2(n) |-> IF i = 1 THEN One ELSE Zero], Pow2(n)),
                 den |-> 1]

ApplySingle(G, pos, n, s) ==
    LET st == Pow2(n - 1 - pos)
        a == s.amp
    IN  ReduceVec([i \in 1..Pow2(n) |->
                     IF Bit(i, pos, n) = 0
                     THEN Add(Mul(G.mat[1][1], a[i]), Mul(G.mat[1][2], a[i + st]))
                     ELSE Add(Mul(G.mat[2][1], a[i - st]), Mul(G.mat[2][2], a[i]))],
                  s.den * G.den)

ApplyControlledIgnoringControl(G, cpos, tpos, n, s) == ApplySingle(G, tpos, n, s)
ApplyControlled(G, cpos, tpos, n, s) ==
    LET st == Pow2(n - 1 - tpos)
        a == s.amp
    IN  ReduceVec([i \in 1..Pow2(n) |->
                     IF Bit(i, cpos, n) = 0 THEN Scale(G.den, a[i])
                     ELSE IF Bit(i, tpos, n) = 0
                     THEN Add(Mul(G.mat[1][1], a[i]), Mul(G.mat[1][2], a[i + st]))
                     ELSE Add(Mul(G.mat[2][1], a[i - st]), Mul(G.mat[2][2], a[i]))],
                  s.den * G.den)

\* f[lo] + ... + f[hi] in the ring
RECURSIVE RingSumRange(_, _, _)
RingSumRange(f, lo, hi) ==
    IF lo > hi THEN Zero
    ELSE IF lo = hi THEN f[lo]
    ELSE LET mid == (lo + hi) \div 2
         IN  Add(RingSumRange(f, lo, mid), RingSumRange(f, mid + 1, hi))
RingSum(f, n) == RingSumRange(f, 1, n)

\* qml.ControlledSequence: the k-th control wire (k = 1..m) controls the
\* base raised to 2^(m-k); the last wire controls the base itself.
ControlledSequencePowerAscending(k, m) == Pow2(k - 1)
ControlledSequencePower(k, m) == Pow2(m - k)

\* qml.adjoint(qml.QFT) on the m estimation wires (positions 1..m):
\* |x> -> 2^(-m/2) * sum_y exp(-2*pi*i*x*y/2^m) |y>
ForwardQFT(m, s) ==
    LET N == Pow2(m)
        a == s.amp
        sc == Sqrt2Pow(m)
    IN  ReduceVec([i \in 1..(2 * N) |->
                     LET y == (i - 1) % N
                         b == (i - 1) \div N
                     IN  Mul(sc, RingSum([x \in 1..N |->
                                MulRoot(a[b * N + x], (((x - 1) * y) % N) * (R \div N))],
                                N))],
                  s.den * N)
AdjointQFT(m, s) ==
    LET N == Pow2(m)
        a == s.amp
        sc == Sqrt2Pow(m)
    IN  ReduceVec([i \in 1..(2 * N) |->
                     LET y == (i - 1) % N
                         b == (i - 1) \div N
                     IN  Mul(sc, RingSum([x \in 1..N |->
                                MulRoot(a[b * N + x], (N - (((x - 1) * y) % N)) * (R \div N))],
                                N))],
                  s.den * N)

\* qml.probs(wires = estimation wires): wire 0 is summed out; entry y + 1 is
\* the probability of the bitstring whose big-endian value is y.
Probs(m, s) ==
    LET N == Pow2(m)
    IN  ReduceVec([y \in 1..N |-> Add(AbsSq(s.amp[y]), AbsSq(s.amp[N + y]))],
                  s.den * s.den)

----------------------------------------------------------------------------
(* The Hamiltonian phase mapping.  An eigenvalue is an integer l standing  *)
(* for l*pi/LamDen; a phase is a fraction [num, den] with den > 0.         *)

\* eigs * duration / (2 * np.pi)
PhaseOf(l, T) == [num |-> l * T, den |-> 2 * LamDen]

\* if phases[i] < 0.: phases[i] = 1 + phases[i]
WrapPhaseNever(p) == p
WrapPhaseAlways(p) == [num |-> p.num + p.den, den |-> p.den]
RECURSIVE WrapPhaseModulo(_)
WrapPhaseModulo(p) ==
    IF p.num < 0 THEN WrapPhaseModulo([num |-> p.num + p.den, den |-> p.den])
    ELSE IF p.num >= p.den THEN WrapPhaseModulo([num |-> p.num - p.den, den |-> p.den])
    ELSE p
WrapPhase(p) == IF p.num < 0 THEN [num |-> p.num + p.den, den |-> p.den] ELSE p

\* lambda = 2*pi*phi/T, in units of pi/LamDen
EigenvalueOf(p, T) == [num |-> 2 * LamDen * p.num, den |-> p.den * T]

----------------------------------------------------------------------------
(* The notebook as a state machine                                         *)

VARIABLES
    pc,                 \* the step the run is at
    estimation_wires,   \* the estimation_wires argument of circuit
    phases,             \* the phases argument of create_unitary, in units of 1/R
    rnd,                \* what the process-wide random source will return
    unitary,            \* the matrix create_unitary returned
    psi,                \* the device's state vector
    k,                  \* position in the loop over the estimation wires
    tape,               \* the operations applied so far, in order
    results,            \* what circuit returned
    eigs,               \* the two eigenvalues, in units of pi/LamDen
    duration,           \* the evolution time
    hphases,            \* the phases array of the Hamiltonian cell
    hi                  \* loop index of the wrap cell

vars == <<pc, estimation_wires, phases, rnd, unitary, psi, k, tape, results,
          eigs, duration, hphases, hi>>

qvars == <<estimation_wires, phases, rnd>>
hvars == <<eigs, duration, hphases, hi>>

\* Python's None, for a matrix and for a distribution not yet computed
NoMatrix == [mat |-> <<>>, den |-> 0]
NoResults == [amp |-> <<>>, den |-> 0]
NoHam == <<>>

M == Len(estimation_wires)
NWires == M + 1

\* range(1, m + 1), as every call of circuit in the notebook passes it
WireRange(m) == [j \in 1..m |-> j]

\* The draws of a circuit run: the vectors (1,1)/2 and (1,i)/2, and
\* np.random.rand() = j/4 for the two rotation angles.
RandVecs == {<<<<1, 0>>, <<1, 0>>>>, <<<<1, 0>>, <<0, 1>>>>}
RandAnglesRY == 0..3
RandAnglesRZ == 0..1

\* The phase pairs of a circuit run, in units of 1/R: every first phase,
\* with an equal, a fixed (0.875) and an unrelated second one.
PhasePairs ==
    UNION {{<<a, a>>, <<a, 7 * (R \div 8)>>, <<a, (3 * a + 1) % R>>} : a \in 0..(R - 1)}

\* the system register: wires=0 of RY, RZ and QubitUnitary
SystemWireOne == 0 + 1
SystemWire == 0

Gate(name, wires, power) == [name |-> name, wires |-> wires, power |-> power]

\* phases = np.array([0.25, 0.875])
Case1Phases == <<2 * (R \div 8), 7 * (R \div 8)>>

InitCircuit ==
    /\ pc = "create_unitary"
    /\ unitary = NoMatrix
    /\ psi = ZeroState(Len(estimation_wires) + 1)
    /\ k = 1
    /\ tape = <<>>
    /\ results = NoResults
    /\ eigs = NoHam /\ duration = 0 /\ hphases = NoHam /\ hi = 0

\* A run of create_unitary and circuit: Case 1 of the notebook, or any
\* phase pair on up to MaxM estimation wires.
Init ==
    /\ \/ /\ estimation_wires = WireRange(Case1Wires)
          /\ phases = Case1Phases
       \/ /\ estimation_wires \in {WireRange(m) : m \in 1..MaxM}
          /\ phases \in PhasePairs
    /\ rnd \in [vec1 : RandVecs, vec2 : RandVecs, ry : RandAnglesRY, rz : RandAnglesRZ]
    /\ InitCircuit

\* create_unitary alone, on every draw of the two random vectors
InitUnitary ==
    /\ estimation_wires = WireRange(1)
    /\ phases \in (0..(R - 1)) \X (0..(R - 1))
    /\ rnd \in [vec1 : RandVecsAll, vec2 : RandVecsAll, ry : {0}, rz : {0}]
    /\ InitCircuit

\* The Hamiltonian cells: eigs and duration are given
InitHamiltonian ==
    /\ pc = "phases"
    /\ eigs \in (-MaxLam..MaxLam) \X (-MaxLam..MaxLam)
    /\ duration \in 1..MaxDuration
    /\ hphases = NoHam
    /\ hi = 0
    /\ estimation_wires = WireRange(1)
    /\ phases = <<0, 0>>
    /\ rnd = [vec1 |-> <<<<1, 0>>, <<1, 0>>>>, vec2 |-> <<<<1, 0>>, <<0, 1>>>>,
              ry |-> 0, rz |-> 0]
    /\ unitary = NoMatrix
    /\ psi = ZeroState(2)
    /\ k = 1
    /\ tape = <<>>
    /\ results = NoResults

\* unitary = create_unitary(phases)
CreateUnitary ==
    /\ pc = "create_unitary"
    /\ LET eigvec_1 == create_random_vec(rnd.vec1)
           eigvec_2 == OrthogonalComplement(eigvec_1, create_random_vec(rnd.vec2))
           U == UnitaryOf(phases, eigvec_1, eigvec_2)
       IN  IF UnitarityCheck(U)
           THEN unitary' = U /\ pc' = "RY"
           ELSE unitary' = NoMatrix /\ pc' = "AssertionError"
    /\ UNCHANGED <<qvars, psi, k, tape, results, hvars>>

\* create_random_state, first gate
RandomStateRY ==
    /\ pc = "RY"
    /\ psi' = ApplySingle(RYMat(rnd.ry), WirePos(SystemWire, estimation_wires), NWires, psi)
    /\ tape' = Append(tape, Gate("RY", <<SystemWire>>, 1))
    /\ pc' = "RZ"
    /\ UNCHANGED <<qvars, unitary, k, results, hvars>>

\* create_random_state, second gate
RandomStateRZSkippingHadamards ==
    /\ pc = "RZ"
    /\ psi' = ApplySingle(RZMat(rnd.rz), WirePos(SystemWire, estimation_wires), NWires, psi)
    /\ tape' = Append(tape, Gate("RZ", <<SystemWire>>, 1))
    /\ pc' = "ControlledSequence"
    /\ k' = 1
    /\ UNCHANGED <<qvars, unitary, results, hvars>>
RandomStateRZ ==
    /\ pc = "RZ"
    /\ psi' = ApplySingle(RZMat(rnd.rz), WirePos(SystemWire, estimation_wires), NWires, psi)
    /\ tape' = Append(tape, Gate("RZ", <<SystemWire>>, 1))
    /\ pc' = "H"
    /\ k' = 1
    /\ UNCHANGED <<qvars, unitary, results, hvars>>

\* for wire in estimation_wires: qml.H(wires=wire)
Hadamard ==
    /\ pc = "H"
    /\ k <= M
    /\ psi' = ApplySingle(HMat, WirePos(estimation_wires[k], estimation_wires), NWires, psi)
    /\ tape' = Append(tape, Gate("H", <<estimation_wires[k]>>, 1))
    /\ IF k = M THEN k' = 1 /\ pc' = "ControlledSequence"
                ELSE k' = k + 1 /\ pc' = "H"
    /\ UNCHANGED <<qvars, unitary, results, hvars>>

\* qml.ControlledSequence(qml.QubitUnitary(unitary, 0), control=estimation_wires),
\* one controlled power per control wire
ControlledPower ==
    /\ pc = "ControlledSequence"
    /\ k <= M
    /\ LET z == ControlledSequencePower(k, M)
       IN  /\ psi' = ApplyControlled(MatPow(unitary, z),
                                     WirePos(estimation_wires[k], estimation_wires),
                                     WirePos(SystemWire, estimation_wires), NWires, psi)
           /\ tape' = Append(tape, Gate("C(U)", <<estimation_wires[k], SystemWire>>, z))
    /\ IF k = M THEN k' = 1 /\ pc' = "QFT"
                ELSE k' = k + 1 /\ pc' = "ControlledSequence"
    /\ UNCHANGED <<qvars, unitary, results, hvars>>

\* qml.adjoint(qml.QFT)(wires=estimation_wires)
InverseQFT ==
    /\ pc = "QFT"
    /\ psi' = AdjointQFT(M, psi)
    /\ tape' = Append(tape, Gate("Adjoint(QFT)", estimation_wires, 1))
    /\ pc' = "probs"
    /\ UNCHANGED <<qvars, unitary, k, results, hvars>>

\* return qml.probs(wires=estimation_wires)
MeasureProbsResetting ==
    /\ pc = "probs"
    /\ results' = Probs(M, psi)
    /\ psi' = ZeroState(NWires)
    /\ tape' = Append(tape, Gate("probs", estimation_wires, 1))
    /\ pc' = "done"
    /\ UNCHANGED <<qvars, unitary, k, hvars>>
MeasureProbs ==
    /\ pc = "probs"
    /\ results' = Probs(M, psi)
    /\ tape' = Append(tape, Gate("probs", estimation_wires, 1))
    /\ pc' = "done"
    /\ UNCHANGED <<qvars, unitary, psi, k, hvars>>

Next ==
    \/ CreateUnitary
    \/ RandomStateRY
    \/ RandomStateRZ
    \/ Hadamard
    \/ ControlledPower
    \/ InverseQFT
    \/ MeasureProbs

Spec == Init /\ [][Next]_vars

\* phases = eigs * duration / (2 * np.pi)
ComputePhases ==
    /\ pc = "phases"
    /\ hphases' = Tup([i \in 1..2 |-> PhaseOf(eigs[i], duration)], 2)
    /\ hi' = 1
    /\ pc' = "wrap"
    /\ UNCHANGED <<qvars, unitary, psi, k, tape, results, eigs, duration>>

\* for i in range(2): if phases[i] < 0.: phases[i] = 1 + phases[i]
WrapStep ==
    /\ pc = "wrap"
    /\ hi <= 2
    /\ hphases' = [hphases EXCEPT ![hi] = WrapPhase(hphases[hi])]
    /\ hi' = hi + 1
    /\ pc' = IF hi = 2 THEN "wrapped" ELSE "wrap"
    /\ UNCHANGED <<qvars, unitary, psi, k, tape, results, eigs, duration>>

NextUnitary == CreateUnitary

NextHamiltonian == ComputePhases \/ WrapStep

SpecUnitary == InitUnitary /\ [][NextUnitary]_vars

SpecHamiltonian == InitHamiltonian /\ [][NextHamiltonian]_vars

----------------------------------------------------------------------------
(* Properties                                                              *)

\* the state create_random_state leaves on the system wire
PreparedState ==
    ApplySingle(RZMat(rnd.rz), 0, 1, ApplySingle(RYMat(rnd.ry), 0, 1, ZeroState(1)))

\* U s = exp(2*pi*i*ph/R) s
IsEigenstate(U, s, ph) ==
    \A r \in 1..2 :
        Add(Mul(U.mat[r][1], s.amp[1]), Mul(U.mat[r][2], s.amp[2]))
            = Scale(U.den, MulRoot(s.amp[r], ph))

\* ph/R = i/2^m for an integer i
Representable(ph, m) == ph % (R \div Pow2(m)) = 0
IndexOf(ph, m) == ph \div (R \div Pow2(m))

\* mass 1 at bitstring index i, 0 elsewhere
Delta(i, m) ==
    [amp |-> Tup([y \in 1..Pow2(m) |-> IF y = i + 1 THEN One ELSE Zero], Pow2(m)),
     den |-> 1]

\* C1: when the system wire is prepared in an eigenstate of the unitary whose
\* eigenphase is i/2^m, the distribution circuit returns over the m
\* estimation wires has mass 1 at index i and mass 0 at every other index.
ExactPhaseGivesSinglePeak ==
    pc = "done" =>
        \A j \in 1..2 :
            (Representable(phases[j], M) /\ IsEigenstate(unitary, PreparedState, phases[j]))
                => results = Delta(IndexOf(phases[j], M), M)

ExactPhaseWitness ==
    /\ pc = "done"
    /\ M = 2
    /\ phases[1] # phases[2]
    /\ \E j \in 1..2 :
        /\ Representable(phases[j], M)
        /\ IndexOf(phases[j], M) = 1
        /\ IsEigenstate(unitary, PreparedState, phases[j])
        /\ results = Delta(1, M)

\* C2: in Case 1 (phases 0.25 and 0.875, wires 1..3) every index of nonzero
\* probability is 2 or 7 and the masses at 2 and 7 sum to 1, whatever state
\* was prepared on the system wire.
Case1PeaksAtTwoAndSeven ==
    (pc = "done" /\ estimation_wires = WireRange(Case1Wires) /\ phases = Case1Phases) =>
        /\ \A y \in 0..(Pow2(M) - 1) : results.amp[y + 1] # Zero => y \in {2, 7}
        /\ Add(results.amp[3], results.amp[8]) = Scale(results.den, One)

Case1TwoPeakWitness ==
    /\ pc = "done"
    /\ estimation_wires = WireRange(Case1Wires)
    /\ phases = Case1Phases
    /\ results.amp[3] # Zero
    /\ results.amp[8] # Zero

NamesOf(t) == [j \in 1..Len(t) |-> t[j].name]
IsGate(op) == op.name # "probs"

\* C3: the operations of a run come in the order: state preparation on the
\* system wire, a Hadamard on every estimation wire, the controlled powers,
\* the inverse QFT as the last gate, the read-out; no controlled power
\* comes before all Hadamards and no gate comes after the inverse QFT.
GateOrder ==
    /\ Len(tape) >= 1 => tape[1] = Gate("RY", <<0>>, 1)
    /\ Len(tape) >= 2 => tape[2] = Gate("RZ", <<0>>, 1)
    /\ \A j \in 1..Len(tape) :
        /\ (j > 2 /\ j <= 2 + M) <=> tape[j].name = "H"
        /\ (j > 2 + M /\ j <= 2 + 2 * M) <=> tape[j].name = "C(U)"
        /\ j = 3 + 2 * M <=> tape[j].name = "Adjoint(QFT)"
        /\ j = 4 + 2 * M <=> tape[j].name = "probs"
        /\ tape[j].name = "C(U)" =>
              {tape[h].wires[1] : h \in 3..(2 + M)} = {estimation_wires[h] : h \in 1..M}
        /\ tape[j].name = "Adjoint(QFT)" => \A h \in (j + 1)..Len(tape) : ~IsGate(tape[h])
    /\ Len(tape) <= 4 + 2 * M
    /\ pc = "done" => Len(tape) = 4 + 2 * M

GateOrderWitness ==
    /\ pc = "done"
    /\ M = 2
    /\ NamesOf(tape) = <<"RY", "RZ", "H", "H", "C(U)", "C(U)", "Adjoint(QFT)", "probs">>

LadderAmplitudeOK(b, x) ==
    LET Ux == MatPow(unitary, x)
        s == PreparedState
        want == Mul(Sqrt2Pow(M),
                    Add(Mul(Ux.mat[b + 1][1], s.amp[1]), Mul(Ux.mat[b + 1][2], s.amp[2])))
    IN  Scale(Pow2(M) * Ux.den * s.den, psi.amp[b * Pow2(M) + x + 1])
            = Scale(psi.den, want)

EntanglingMap == \A b \in 0..1 : \A x \in 0..(Pow2(M) - 1) : LadderAmplitudeOK(b, x)

LadderOf(t) == SelectSeq(t, LAMBDA op : op.name = "C(U)")

\* C8 as stated: the k-th estimation wire (k = 0..m-1) is the sole control of
\* U^(2^k) on the system wire, and the branch |x> (big-endian) receives U^x.
LadderAscendingPowers ==
    /\ \A j \in 1..Len(LadderOf(tape)) :
        LadderOf(tape)[j] = Gate("C(U)", <<estimation_wires[j], 0>>, Pow2(j - 1))
    /\ pc = "QFT" => EntanglingMap

\* C8 amended: the k-th estimation wire (k = 0..m-1) is the sole control of
\* U^(2^(m-1-k)) on the system wire, and the branch |x> (big-endian)
\* receives U^x.
LadderDescendingPowers ==
    /\ \A j \in 1..Len(LadderOf(tape)) :
        LadderOf(tape)[j] = Gate("C(U)", <<estimation_wires[j], 0>>, Pow2(M - j))
    /\ pc = "QFT" => EntanglingMap

LadderWitness ==
    /\ pc = "QFT"
    /\ M = 2
    /\ phases[1] # phases[2]
    /\ Len(LadderOf(tape)) = 2
    /\ LadderOf(tape)[1].power = 2
    /\ EntanglingMap

OnSystemWire(op) == op.name \in {"RY", "RZ"}

\* C10: wire 0 is the system register and the estimation_wires argument is
\* the estimation register: wire 0 is no estimation wire, no wire is listed
\* twice, and every operation from the first gate to the read-out uses the
\* wires of that one partition.
RegisterPartition ==
    /\ \A j \in 1..M : estimation_wires[j] # 0
    /\ \A i, j \in 1..M : i # j => estimation_wires[i] # estimation_wires[j]
    /\ \A j \in 1..Len(tape) :
        LET op == tape[j]
        IN  /\ OnSystemWire(op) => op.wires = <<0>>
            /\ op.name = "H" => \E h \in 1..M : op.wires = <<estimation_wires[h]>>
            /\ op.name = "C(U)" =>
                  \E h \in 1..M : op.wires = <<estimation_wires[h], 0>>
            /\ op.name \in {"Adjoint(QFT)", "probs"} => op.wires = estimation_wires

RegisterPartitionWitness ==
    /\ pc = "done"
    /\ M = Case1Wires
    /\ \E j \in 1..Len(tape) : tape[j].name = "C(U)" /\ tape[j].wires = <<3, 0>>

\* C6: what create_unitary returns is unitary, and it returns whenever the
\* two random vectors are linearly independent; otherwise it stops on its
\* assertion and returns nothing.
Independent(d1, d2) ==
    Sub(Mul(Gauss(d1[1]), Gauss(d2[2])), Mul(Gauss(d1[2]), Gauss(d2[1]))) # Zero

InRange(p) == 0 <= p.num /\ p.num < p.den
Small(l, T) == Abs(l * T) < 2 * LamDen

RatEqInt(q, n) == q.num = n * q.den

====
